---- MODULE Spec2Model ----
(***************************************************************************)
(* Model of the three workbooks of Pelfox/discrete-math:                   *)
(*   Workbook1.py  remove_by_frequency                                     *)
(*   Workbook2.py  calculate_shannon_fano, encode, decode, avg_code_length *)
(*   Workbook3.py  Node.build_huffman_codes, Node.decode_text,             *)
(*                 calculate_avg_length, join_bigrams                      *)
(*                                                                         *)
(* A Python str is a sequence of one-character strings; a symbol (a        *)
(* unigram or a bigram token) is such a sequence of length 1 or 2.  A dict *)
(* (Counter, codec) is a sequence of records [key, val] in insertion       *)
(* order.  A float that is a quotient of integers is a pair <<num, den>>.  *)
(***************************************************************************)
EXTENDS Integers, Sequences, FiniteSets, TLC

VARIABLES
    wb,            \* which workbook runs: 1, 2 or 3
    gram,          \* the analysis under way: 1 on unigrams, then 2 on bigrams
    text,          \* the input text
    tokens,        \* list(text), or [text[i:i+2] for i in range(len(text)-1)]
    counter,       \* Counter(tokens)
                   \* the variables below, codes .. avg, are those of the analysis
                   \* under way (shannon_fano or bigrams_codec, encoded or
                   \* bigrams_encoded, ...), blank until main assigns them
    pc,            \* position in the run; "done": the run ended, "halt": an
                   \* exception, or a call on another input than the run's own
    err,           \* "" or the name of the exception that ended the run
    codes,         \* calculate_shannon_fano: the dict being built
    stack,         \* calculate_shannon_fano: pending calls of split, innermost first
    arena,         \* build_huffman_codes: every Node created so far
    nodes,         \* build_huffman_codes: the working list (indices into arena)
    huffman_codes, \* build_huffman_codes: the dict filled by generate_codes
    chars,         \* the sequence handed to encode / build_huffman_codes
    missing,       \* the symbols the raised error reports
    encoded,       \* the bitstring produced
    bitstring,     \* the bitstring handed to decode / decode_text
    decoded,       \* decode: result; decode_text: decoded_text
    buffer,        \* decode: the buffer when the loop ends
    current_node,  \* decode_text: current_node when the loop ends (0: None)
    joined,        \* the text rebuilt from decoded
    avg,           \* the average code length, <<num, den>>
    mode,          \* remove_by_frequency: 'top' or 'bottom'
    frac,          \* remove_by_frequency: the fraction, <<num, den>>
    filtered,      \* remove_by_frequency: the filtered text
    to_remove      \* remove_by_frequency: the removed symbols

vars == <<wb, gram, text, tokens, counter, pc, err, codes, stack, arena, nodes,
          huffman_codes, chars, missing, encoded, bitstring, decoded, buffer,
          current_node, joined, avg, mode, frac, filtered, to_remove>>

----------------------------------------------------------------------------
\* Bounds of the model.

\* longest input text
MaxLen == 5
\* longest sequence handed to encode that is not the text's own tokens
MaxProbe == 2
\* longest bitstring handed to decode that is not the encoder's own output
MaxBits == 3
\* largest count of one symbol in a frequency count given directly to a builder
MaxCount == 5
\* longest codeword calculate_shannon_fano.split may grow
MaxDepth == 9

Alphabet == {"a", "b", "c"}
BuildSymbols == <<"a", "b", "c", "d">>
Bits == {"0", "1"}

SeqsUpTo(S, n) == UNION {[1..k -> S] : k \in 0..n}

Texts == SeqsUpTo(Alphabet, MaxLen)
ProbeChars == SeqsUpTo({<<c>> : c \in Alphabet}, MaxProbe)
ProbeBits == SeqsUpTo(Bits, MaxBits)

----------------------------------------------------------------------------
\* Python values.

\* None, and also the empty str: both are falsy, and no symbol is empty
None == <<>>

Min(S) == CHOOSE x \in S : \A y \in S : x <= y
Max(S) == CHOOSE x \in S : \A y \in S : x >= y

RECURSIVE Join(_)
Join(strs) ==
    IF strs = <<>> THEN <<>> ELSE Head(strs) \o Join(Tail(strs))

DictHas(d, k) == \E i \in DOMAIN d : d[i].key = k
DictGet(d, k) == d[CHOOSE i \in DOMAIN d : d[i].key = k].val
DictSet(d, k, v) ==
    IF DictHas(d, k)
    THEN [i \in DOMAIN d |-> IF d[i].key = k THEN [key |-> k, val |-> v] ELSE d[i]]
    ELSE Append(d, [key |-> k, val |-> v])
DictKeys(d) == {d[i].key : i \in DOMAIN d}

\* counter[char] of a Counter: 0 for a missing key
Count(cnt, k) == IF DictHas(cnt, k) THEN DictGet(cnt, k) ELSE 0

RECURSIVE SumVals(_)
SumVals(d) == IF d = <<>> THEN 0 ELSE Head(d).val + SumVals(Tail(d))

RECURSIVE CounterFrom(_, _)
CounterFrom(cnt, toks) ==
    IF toks = <<>> THEN cnt
    ELSE CounterFrom(DictSet(cnt, Head(toks), Count(cnt, Head(toks)) + 1), Tail(toks))

Counter(toks) == CounterFrom(<<>>, toks)

Unigrams(t) == [i \in 1..Len(t) |-> <<t[i]>>]
Bigrams(t) == [i \in 1..(Len(t) - 1) |-> <<t[i], t[i + 1]>>]
TokensOf(t, g) == IF g = 1 THEN Unigrams(t) ELSE Bigrams(t)

\* sorted(items, key=lambda x: x[1], reverse=True): stable, descending
RECURSIVE SortedDescFrom(_, _)
SortedDescFrom(done, items) ==
    IF items = <<>> THEN done
    ELSE LET x == Head(items)
             p == Cardinality({i \in DOMAIN done : done[i].val >= x.val})
         IN SortedDescFrom(SubSeq(done, 1, p) \o <<x>> \o SubSeq(done, p + 1, Len(done)),
                           Tail(items))

SortedDesc(items) == SortedDescFrom(<<>>, items)

----------------------------------------------------------------------------
\* Workbook2.py

\* split cutting where the accumulated weight exceeds half the total
CutIdxStrict(group) ==
    LET total == SumVals(group)
        hits == {i \in DOMAIN group : 2 * SumVals(SubSeq(group, 1, i)) > total}
    IN IF hits = {} THEN 0 ELSE Min(hits)

\* split: the index after which the group is cut
CutIdx(group) ==
    LET total == SumVals(group)
        hits == {i \in DOMAIN group : 2 * SumVals(SubSeq(group, 1, i)) >= total}
    IN IF hits = {} THEN 0 ELSE Min(hits)

SplitLeft(group) == SubSeq(group, 1, CutIdx(group))
SplitRight(group) == SubSeq(group, CutIdx(group) + 1, Len(group))

\* split with the right part given the left part's bit
SplitCodesSameBit(cds, group) ==
    [i \in DOMAIN cds |->
        IF DictHas(group, cds[i].key)
        THEN [cds[i] EXCEPT !.val = @ \o <<"0">>]
        ELSE cds[i]]

\* the codes after one call of split on group
SplitCodes(cds, group) ==
    [i \in DOMAIN cds |->
        IF DictHas(SplitLeft(group), cds[i].key)
        THEN [cds[i] EXCEPT !.val = @ \o <<"0">>]
        ELSE IF DictHas(SplitRight(group), cds[i].key)
             THEN [cds[i] EXCEPT !.val = @ \o <<"1">>]
             ELSE cds[i]]

\* encode: the symbols of text that have no codeword
Missing(txt, codec) == {txt[i] : i \in {j \in DOMAIN txt : ~DictHas(codec, txt[j])}}

EncodeJoin(txt, codec) == Join([i \in DOMAIN txt |-> DictGet(codec, txt[i])])

encode(txt, codec) ==
    IF Missing(txt, codec) # {}
    THEN [err |-> "ValueError", missing |-> Missing(txt, codec), out |-> <<>>]
    ELSE [err |-> "", missing |-> {}, out |-> EncodeJoin(txt, codec)]

\* reversed_codec = {code: char for char, code in codec.items()}
RECURSIVE ReversedFrom(_, _)
ReversedFrom(rev, codec) ==
    IF codec = <<>> THEN rev
    ELSE ReversedFrom(DictSet(rev, Head(codec).val, Head(codec).key), Tail(codec))

ReversedCodec(codec) == ReversedFrom(<<>>, codec)

RECURSIVE DecodeLoop(_, _, _, _)
DecodeLoop(bits, buf, result, rev) ==
    IF bits = <<>> THEN [result |-> result, buffer |-> buf]
    ELSE LET b == Append(buf, Head(bits))
         IN IF DictHas(rev, b)
            THEN DecodeLoop(Tail(bits), <<>>, Append(result, DictGet(rev, b)), rev)
            ELSE DecodeLoop(Tail(bits), b, result, rev)

decode(bits, codec) == DecodeLoop(bits, <<>>, <<>>, ReversedCodec(codec))

RECURSIVE WeightedLen(_, _)
WeightedLen(codec, cnt) ==
    IF codec = <<>> THEN 0
    ELSE Count(cnt, Head(codec).key) * Len(Head(codec).val) + WeightedLen(Tail(codec), cnt)

avg_code_length(codec, cnt) ==
    IF SumVals(cnt) = 0 THEN <<0, 1>> ELSE <<WeightedLen(codec, cnt), SumVals(cnt)>>

----------------------------------------------------------------------------
\* Workbook3.py

Node(char, freq) == [char |-> char, freq |-> freq, left |-> 0, right |-> 0]

\* an ascending sort that puts a node before the equal ones already placed
RECURSIVE SortNodesTiesLastFrom(_, _, _)
SortNodesTiesLastFrom(done, ns, ar) ==
    IF ns = <<>> THEN done
    ELSE LET x == Head(ns)
             p == Cardinality({i \in DOMAIN done : ar[done[i]].freq < ar[x].freq})
         IN SortNodesTiesLastFrom(
                SubSeq(done, 1, p) \o <<x>> \o SubSeq(done, p + 1, Len(done)),
                Tail(ns), ar)

SortNodesTiesLast(ns, ar) == SortNodesTiesLastFrom(<<>>, ns, ar)

\* nodes.sort(key=lambda x: x.freq): stable, ascending
RECURSIVE SortNodesFrom(_, _, _)
SortNodesFrom(done, ns, ar) ==
    IF ns = <<>> THEN done
    ELSE LET x == Head(ns)
             p == Cardinality({i \in DOMAIN done : ar[done[i]].freq <= ar[x].freq})
         IN SortNodesFrom(SubSeq(done, 1, p) \o <<x>> \o SubSeq(done, p + 1, Len(done)),
                          Tail(ns), ar)

SortNodes(ns, ar) == SortNodesFrom(<<>>, ns, ar)

\* a merged node that takes the weight of its left child alone
MergedFreqLeftOnly(l, r) == l.freq

\* Node(None, left.freq + right.freq)
MergedFreq(l, r) == l.freq + r.freq

\* generate_codes with the left subtree given the right subtree's bit
RECURSIVE generate_codes_same_bit(_, _, _)
generate_codes_same_bit(ar, node, code) ==
    IF node = 0 THEN <<>>
    ELSE (IF ar[node].char # None
          THEN <<[key |-> ar[node].char, val |-> IF code = <<>> THEN <<"0">> ELSE code]>>
          ELSE <<>>)
         \o generate_codes_same_bit(ar, ar[node].right, Append(code, "0"))
         \o generate_codes_same_bit(ar, ar[node].left, Append(code, "0"))

\* generate_codes: the assignments to huffman_codes, in the order they are made
RECURSIVE generate_codes(_, _, _)
generate_codes(ar, node, code) ==
    IF node = 0 THEN <<>>
    ELSE (IF ar[node].char # None
          THEN <<[key |-> ar[node].char, val |-> IF code = <<>> THEN <<"0">> ELSE code]>>
          ELSE <<>>)
         \o generate_codes(ar, ar[node].right, Append(code, "0"))
         \o generate_codes(ar, ar[node].left, Append(code, "1"))

RECURSIVE DictFrom(_, _)
DictFrom(d, items) ==
    IF items = <<>> THEN d
    ELSE DictFrom(DictSet(d, Head(items).key, Head(items).val), Tail(items))

\* "".join(huffman_codes[char] for char in chars)
HuffmanEncode(chs, codec) ==
    LET bad == {i \in DOMAIN chs : ~DictHas(codec, chs[i])}
    IN IF bad # {}
       THEN [err |-> "KeyError", missing |-> {chs[Min(bad)]}, out |-> <<>>]
       ELSE [err |-> "", missing |-> {}, out |-> EncodeJoin(chs, codec)]

RECURSIVE DecodeText(_, _, _, _, _)
DecodeText(ar, tree, bits, cur, out) ==
    IF bits = <<>> THEN [err |-> "", out |-> out, cur |-> cur]
    ELSE IF cur = 0 THEN [err |-> "AttributeError", out |-> <<>>, cur |-> cur]
    ELSE LET nxt == IF Head(bits) = "1" THEN ar[cur].left ELSE ar[cur].right
         IN IF nxt # 0 /\ ar[nxt].char # None
            THEN DecodeText(ar, tree, Tail(bits), tree, Append(out, ar[nxt].char))
            ELSE DecodeText(ar, tree, Tail(bits), nxt, out)

decode_text(bits, ar, tree) == DecodeText(ar, tree, bits, tree, <<>>)

calculate_avg_length(txt, codec, cnt) ==
    IF codec = <<>> THEN [err |-> "", avg |-> <<0, 1>>]
    ELSE IF Len(txt) = 0 THEN [err |-> "ZeroDivisionError", avg |-> <<0, 1>>]
    ELSE [err |-> "", avg |-> <<WeightedLen(codec, cnt), Len(txt)>>]

join_bigrams(bigrams) ==
    IF bigrams = <<>> THEN <<>>
    ELSE Join(<<bigrams[1]>> \o [i \in 1..(Len(bigrams) - 1) |->
                                    <<bigrams[i + 1][Len(bigrams[i + 1])]>>])

----------------------------------------------------------------------------
\* Workbook1.py

\* round(num / den): Python rounds a half to the even neighbour
Round(num, den) ==
    LET q == num \div den
        r == num % den
    IN IF 2 * r < den THEN q
       ELSE IF 2 * r > den THEN q + 1
       ELSE IF q % 2 = 0 THEN q ELSE q + 1

\* max(1, round(frac * symbols_count))
RemoveN(fr, symbols_count) == Max({1, Round(fr[1] * symbols_count, fr[2])})

\* most_common without the sort: the items in first-seen order
most_common_unsorted(cnt) == cnt

\* counter.most_common(): sorted(items, key=itemgetter(1), reverse=True)
most_common(cnt) == SortedDesc(cnt)

\* s[:n] for n >= 0
SliceHead(s, n) == SubSeq(s, 1, Min({n, Len(s)}))
\* s[-n:] for n >= 0
SliceTail(s, n) == IF n = 0 THEN s ELSE SubSeq(s, Max({Len(s) - n, 0}) + 1, Len(s))

ToRemove(cnt, md, remove_n) ==
    IF md = "top"
    THEN DictKeys(SliceHead(most_common(cnt), remove_n))
    ELSE DictKeys(SliceTail(most_common(cnt), remove_n))

Filtered(txt, removed) == SelectSeq(txt, LAMBDA c : <<c>> \notin removed)

remove_by_frequency(txt, md, fr) ==
    LET cnt == Counter(Unigrams(txt))
    IN IF cnt = <<>> THEN [filtered |-> txt, to_remove |-> {}]
       ELSE LET removed == ToRemove(cnt, md, RemoveN(fr, Len(cnt)))
            IN [filtered |-> Filtered(txt, removed), to_remove |-> removed]

----------------------------------------------------------------------------
\* The inputs.

\* the text of the spec's remove_by_frequency example
ExampleText == <<"a", "a", "a", "b", "b", "b", "c", "c", "d">>
\* the fractions handed to remove_by_frequency
Fracs == {<<0, 1>>, <<1, 5>>, <<17, 50>>, <<1, 2>>, <<1, 1>>, <<3, 2>>}
Modes == {"top", "bottom"}

\* frequency counts handed directly to a builder: symbols are opaque, so the
\* keys are named in first-seen order
Counters ==
    UNION {{[i \in 1..n |-> [key |-> <<BuildSymbols[i]>>, val |-> f[i]]] :
                f \in [1..n -> 1..MaxCount]} : n \in 0..Len(BuildSymbols)}

\* a sequence whose Counter is cnt
RECURSIVE Expand(_)
Expand(cnt) ==
    IF cnt = <<>> THEN <<>>
    ELSE [i \in 1..Head(cnt).val |-> Head(cnt).key] \o Expand(Tail(cnt))

StartPc(w) == IF w = 1 THEN "rm" ELSE IF w = 2 THEN "sf_start" ELSE "hm_start"

Blank ==
    /\ err = ""
    /\ codes = <<>>
    /\ stack = <<>>
    /\ arena = <<>>
    /\ nodes = <<>>
    /\ huffman_codes = <<>>
    /\ chars = <<>>
    /\ missing = {}
    /\ encoded = <<>>
    /\ bitstring = <<>>
    /\ decoded = <<>>
    /\ buffer = <<>>
    /\ current_node = 0
    /\ joined = <<>>
    /\ avg = <<0, 1>>
    /\ mode = "top"
    /\ frac = <<0, 1>>
    /\ filtered = <<>>
    /\ to_remove = {}

\* a workbook's main on a text: Workbook1 on the text, Workbook2 and Workbook3 on
\* its unigrams first
Init ==
    /\ wb \in {1, 2, 3}
    /\ text \in Texts \cup {ExampleText}
    /\ gram = 1
    /\ tokens = TokensOf(text, gram)
    /\ counter = Counter(tokens)
    /\ pc = StartPc(wb)
    /\ Blank

\* a builder called on a frequency count
InitBuild ==
    /\ wb \in {2, 3}
    /\ counter \in Counters
    /\ gram = 1
    /\ tokens = Expand(counter)
    /\ text = Join(tokens)
    /\ pc = StartPc(wb)
    /\ Blank

\* main goes on to the bigrams of the text: nothing of their analysis is assigned
StartBigrams ==
    /\ gram' = 2
    /\ tokens' = TokensOf(text, 2)
    /\ counter' = Counter(TokensOf(text, 2))
    /\ pc' = StartPc(wb)
    /\ codes' = <<>>
    /\ stack' = <<>>
    /\ arena' = <<>>
    /\ nodes' = <<>>
    /\ huffman_codes' = <<>>
    /\ chars' = <<>>
    /\ missing' = {}
    /\ encoded' = <<>>
    /\ bitstring' = <<>>
    /\ decoded' = <<>>
    /\ buffer' = <<>>
    /\ current_node' = 0
    /\ joined' = <<>>
    /\ avg' = <<0, 1>>
    /\ UNCHANGED <<wb, text, err, mode, frac, filtered, to_remove>>

----------------------------------------------------------------------------
\* Workbook2.py: calculate_shannon_fano, one action per call of split.

SFStart ==
    /\ pc = "sf_start"
    /\ codes' = [i \in DOMAIN counter |-> [key |-> counter[i].key, val |-> <<>>]]
    /\ stack' = <<SortedDesc(counter)>>
    /\ pc' = "sf_split"
    /\ UNCHANGED <<wb, gram, text, tokens, counter, err, arena, nodes, huffman_codes,
                   chars, missing, encoded, bitstring, decoded, buffer, current_node,
                   joined, avg, mode, frac, filtered, to_remove>>

SFSplit ==
    /\ pc = "sf_split"
    /\ stack # <<>>
    /\ \A i \in DOMAIN codes : Len(codes[i].val) < MaxDepth
    /\ LET group == Head(stack)
       IN IF Len(group) <= 1
          THEN /\ stack' = Tail(stack)
               /\ codes' = codes
          ELSE /\ codes' = SplitCodes(codes, group)
               /\ stack' = <<SplitRight(group), SplitLeft(group)>> \o Tail(stack)
    /\ UNCHANGED <<wb, gram, text, tokens, counter, pc, err, arena, nodes, huffman_codes,
                   chars, missing, encoded, bitstring, decoded, buffer, current_node,
                   joined, avg, mode, frac, filtered, to_remove>>

\* calculate_shannon_fano returns: main encodes the unigrams next (line 134), but
\* takes the average length of the bigrams' codec first (line 147)
SFReturn ==
    /\ pc = "sf_split"
    /\ stack = <<>>
    /\ pc' = IF gram = 1 THEN "sf_encode" ELSE "sf_avg"
    /\ UNCHANGED <<wb, gram, text, tokens, counter, err, codes, stack, arena, nodes,
                   huffman_codes, chars, missing, encoded, bitstring, decoded, buffer,
                   current_node, joined, avg, mode, frac, filtered, to_remove>>

\* encode, on the text's own tokens or on another sequence
SFEncode ==
    /\ pc = "sf_encode"
    /\ \E chs \in {tokens} \cup ProbeChars :
          LET r == encode(chs, codes)
          IN /\ chars' = chs
             /\ err' = r.err
             /\ missing' = r.missing
             /\ encoded' = r.out
             /\ pc' = IF r.err = "" /\ chs = tokens THEN "sf_decode" ELSE "halt"
    /\ UNCHANGED <<wb, gram, text, tokens, counter, codes, stack, arena, nodes,
                   huffman_codes, bitstring, decoded, buffer, current_node, joined, avg,
                   mode, frac, filtered, to_remove>>

\* decode, on the encoder's output or on another bitstring
SFDecode ==
    /\ pc = "sf_decode"
    /\ \E bits \in {encoded} \cup ProbeBits :
          LET r == decode(bits, codes)
          IN /\ bitstring' = bits
             /\ decoded' = r.result
             /\ buffer' = r.buffer
             /\ joined' = Join(r.result)
             /\ pc' = IF bits # encoded THEN "halt"
                      ELSE IF gram = 1 THEN "sf_avg" ELSE "done"
    /\ UNCHANGED <<wb, gram, text, tokens, counter, err, codes, stack, arena, nodes,
                   huffman_codes, chars, missing, encoded, current_node, avg, mode, frac,
                   filtered, to_remove>>

SFAvg ==
    /\ pc = "sf_avg"
    /\ avg' = avg_code_length(codes, counter)
    /\ pc' = "sf_eff"
    /\ UNCHANGED <<wb, gram, text, tokens, counter, err, codes, stack, arena, nodes,
                   huffman_codes, chars, missing, encoded, bitstring, decoded, buffer,
                   current_node, joined, mode, frac, filtered, to_remove>>

\* main: entropy / avg_length (line 137), then the bigrams' codec (lines 145-146);
\* entropy / bigrams_avg_length (line 148), then the bigrams' encoding (line 150)
SFEfficiency ==
    /\ pc = "sf_eff"
    /\ IF avg[1] = 0
       THEN /\ err' = "ZeroDivisionError"
            /\ pc' = "halt"
            /\ UNCHANGED <<wb, gram, text, tokens, counter, codes, stack, arena, nodes,
                           huffman_codes, chars, missing, encoded, bitstring, decoded,
                           buffer, current_node, joined, avg, mode, frac, filtered,
                           to_remove>>
       ELSE IF gram = 1
            THEN StartBigrams
            ELSE /\ pc' = "sf_encode"
                 /\ UNCHANGED <<wb, gram, text, tokens, counter, err, codes, stack,
                                arena, nodes, huffman_codes, chars, missing, encoded,
                                bitstring, decoded, buffer, current_node, joined, avg,
                                mode, frac, filtered, to_remove>>

----------------------------------------------------------------------------
\* Workbook3.py: Node.build_huffman_codes, one action per iteration of the loop.

HuffmanStart ==
    /\ pc = "hm_start"
    /\ arena' = [i \in DOMAIN counter |-> Node(counter[i].key, counter[i].val)]
    /\ nodes' = [i \in DOMAIN counter |-> i]
    /\ pc' = "hm_merge"
    /\ UNCHANGED <<wb, gram, text, tokens, counter, err, codes, stack, huffman_codes,
                   chars, missing, encoded, bitstring, decoded, buffer, current_node,
                   joined, avg, mode, frac, filtered, to_remove>>

HuffmanMerge ==
    /\ pc = "hm_merge"
    /\ Len(nodes) > 1
    /\ LET sorted == SortNodes(nodes, arena)
           left == sorted[1]
           right == sorted[2]
           merged == [char |-> None, freq |-> MergedFreq(arena[left], arena[right]),
                      left |-> left, right |-> right]
       IN /\ arena' = Append(arena, merged)
          /\ nodes' = Append(SubSeq(sorted, 3, Len(sorted)), Len(arena) + 1)
    /\ UNCHANGED <<wb, gram, text, tokens, counter, pc, err, codes, stack, huffman_codes,
                   chars, missing, encoded, bitstring, decoded, buffer, current_node,
                   joined, avg, mode, frac, filtered, to_remove>>

\* generate_codes(nodes[0]) and the encoding of chars
Generate(chs) ==
    /\ pc = "hm_merge"
    /\ Len(nodes) <= 1
    /\ chars' = chs
    /\ IF nodes = <<>>
       THEN /\ err' = "IndexError"
            /\ pc' = "halt"
            /\ UNCHANGED <<huffman_codes, missing, encoded>>
       ELSE LET cds == DictFrom(<<>>, generate_codes(arena, nodes[1], <<>>))
                r == HuffmanEncode(chs, cds)
            IN /\ huffman_codes' = cds
               /\ err' = r.err
               /\ missing' = r.missing
               /\ encoded' = r.out
               /\ pc' = IF r.err = "" /\ chs = tokens THEN "hm_decode" ELSE "halt"
    /\ UNCHANGED <<wb, gram, text, tokens, counter, codes, stack, arena, nodes, bitstring,
                   decoded, buffer, current_node, joined, avg, mode, frac, filtered,
                   to_remove>>

\* build_huffman_codes returns, called on the text's own tokens or on another sequence
HuffmanGenerate == \E chs \in {tokens} \cup ProbeChars : Generate(chs)

\* build_huffman_codes returns, called on the sequence the counts were taken from
HuffmanGenerateOwn == Generate(tokens)

\* Node.decode_text on the encoder's output or on another bitstring, and the join
HuffmanDecode ==
    /\ pc = "hm_decode"
    /\ \E bits \in {encoded} \cup ProbeBits :
          LET r == decode_text(bits, arena, nodes[1])
          IN /\ bitstring' = bits
             /\ err' = r.err
             /\ decoded' = r.out
             /\ current_node' = r.cur
             /\ joined' = IF gram = 1 THEN Join(r.out) ELSE join_bigrams(r.out)
             /\ pc' = IF r.err = "" /\ bits = encoded THEN "hm_avg" ELSE "halt"
    /\ UNCHANGED <<wb, gram, text, tokens, counter, codes, stack, arena, nodes,
                   huffman_codes, chars, missing, encoded, buffer, avg, mode, frac,
                   filtered, to_remove>>

\* main: calculate_avg_length(text, codes, counter)
HuffmanAvg ==
    /\ pc = "hm_avg"
    /\ LET r == calculate_avg_length(text, huffman_codes, counter)
       IN /\ avg' = r.avg
          /\ err' = r.err
          /\ pc' = IF r.err = "" THEN "hm_eff" ELSE "halt"
    /\ UNCHANGED <<wb, gram, text, tokens, counter, codes, stack, arena, nodes,
                   huffman_codes, chars, missing, encoded, bitstring, decoded, buffer,
                   current_node, joined, mode, frac, filtered, to_remove>>

\* main: entropy / avg_length (line 154), then the bigrams (lines 164-166);
\* the bigrams' entropy / (sum(freq * len(code)) / sum(freq)) (lines 171-173)
HuffmanEfficiency ==
    /\ pc = "hm_eff"
    /\ IF \/ gram = 1 /\ avg[1] = 0
          \/ gram = 2 /\ (SumVals(counter) = 0 \/ WeightedLen(huffman_codes, counter) = 0)
       THEN /\ err' = "ZeroDivisionError"
            /\ pc' = "halt"
            /\ UNCHANGED <<wb, gram, text, tokens, counter, codes, stack, arena, nodes,
                           huffman_codes, chars, missing, encoded, bitstring, decoded,
                           buffer, current_node, joined, avg, mode, frac, filtered,
                           to_remove>>
       ELSE IF gram = 1
            THEN StartBigrams
            ELSE /\ pc' = "done"
                 /\ UNCHANGED <<wb, gram, text, tokens, counter, err, codes, stack,
                                arena, nodes, huffman_codes, chars, missing, encoded,
                                bitstring, decoded, buffer, current_node, joined, avg,
                                mode, frac, filtered, to_remove>>

----------------------------------------------------------------------------
\* Workbook1.py

RemoveByFrequency ==
    /\ pc = "rm"
    /\ \E md \in Modes, fr \in Fracs :
          LET r == remove_by_frequency(text, md, fr)
          IN /\ mode' = md
             /\ frac' = fr
             /\ filtered' = r.filtered
             /\ to_remove' = r.to_remove
    /\ pc' = "done"
    /\ UNCHANGED <<wb, gram, text, tokens, counter, err, codes, stack, arena, nodes,
                   huffman_codes, chars, missing, encoded, bitstring, decoded, buffer,
                   current_node, joined, avg>>

----------------------------------------------------------------------------

Next ==
    \/ SFStart
    \/ SFSplit
    \/ SFReturn
    \/ SFEncode
    \/ SFDecode
    \/ SFAvg
    \/ SFEfficiency
    \/ HuffmanStart
    \/ HuffmanMerge
    \/ HuffmanGenerate
    \/ HuffmanDecode
    \/ HuffmanAvg
    \/ HuffmanEfficiency
    \/ RemoveByFrequency

Spec == Init /\ [][Next]_vars

NextBuild ==
    \/ SFStart
    \/ SFSplit
    \/ SFReturn
    \/ HuffmanStart
    \/ HuffmanMerge
    \/ HuffmanGenerateOwn

SpecBuild == InitBuild /\ [][NextBuild]_vars

----------------------------------------------------------------------------
\* The claims.

Abs(x) == IF x < 0 THEN -x ELSE x

\* bits p is a prefix of bits q
IsPrefix(p, q) == Len(p) <= Len(q) /\ SubSeq(q, 1, Len(p)) = p

\* decode (Workbook2) or decode_text (Workbook3) has returned, called on the bitstring
\* the analysis under way encoded from its own tokens
DecodedOwn ==
    \/ wb = 2 /\ gram = 1 /\ pc \in {"sf_avg", "sf_eff"}
    \/ wb = 2 /\ gram = 2 /\ pc = "done"
    \/ wb = 3 /\ pc \in {"hm_avg", "hm_eff", "done"}

\* C1: Shannon-Fano round trip: for a sequence with at least 2 distinct symbols,
\* decode(encode(sequence, codec), codec) with codec =
\* calculate_shannon_fano(Counter(sequence)) gives back the sequence, symbol by
\* symbol, and as the joined string (the text itself for unigrams).
ShannonFanoRoundTrip ==
    (wb = 2 /\ DecodedOwn /\ Len(counter) >= 2)
        => /\ chars = tokens
           /\ bitstring = encoded
           /\ decoded = tokens
           /\ buffer = <<>>
           /\ joined = Join(tokens)
           /\ (gram = 1 => joined = text)

ShannonFanoRoundTripWitness ==
    /\ wb = 2
    /\ pc = "sf_avg"
    /\ Len(counter) = 3
    /\ Len(tokens) = 4
    /\ Len(encoded) > Len(tokens)
    /\ decoded = tokens

\* C2: Huffman round trip: for every non-empty sequence, one distinct symbol
\* included, decode_text on the bitstring and tree of build_huffman_codes(sequence,
\* Counter(sequence)) returns the sequence, symbol by symbol, without raising.
HuffmanRoundTrip ==
    (wb = 3 /\ tokens # <<>> /\ chars = tokens /\ bitstring = encoded
       /\ (DecodedOwn \/ (pc = "halt" /\ err = "AttributeError")))
        => /\ err = ""
           /\ decoded = tokens

\* C4: decode fails with CorruptStream, and returns nothing, when the bitstring ends
\* while the buffer is non-empty and matches no codeword (decode_text: while
\* current_node is not back at the root).  Stated for the codecs of two or more
\* symbols, where every codeword is non-empty.
DecodeRaisesCorruptStream ==
    /\ (wb = 2 /\ Len(counter) >= 2 /\ (DecodedOwn \/ pc = "halt")
          /\ buffer # <<>>)
          => (err = "CorruptStream" /\ decoded = <<>>)
    /\ (wb = 3 /\ Len(counter) >= 2 /\ (DecodedOwn \/ pc = "halt")
          /\ bitstring # <<>> /\ current_node # nodes[1])
          => (err = "CorruptStream" /\ decoded = <<>>)

\* the state after encode (Workbook2) or the encoding of build_huffman_codes
\* (Workbook3) has run on chars: the bigrams' run of Workbook2 can end before it,
\* at the division of line 148, and build_huffman_codes at nodes[0]
Encoded ==
    \/ wb = 2 /\ gram = 1 /\ pc \in {"sf_decode", "sf_avg", "sf_eff", "halt"}
    \/ wb = 2 /\ gram = 2 /\ pc \in {"sf_decode", "done", "halt"}
          /\ err # "ZeroDivisionError"
    \/ wb = 3 /\ pc \in {"hm_decode", "hm_avg", "hm_eff", "done", "halt"}
          /\ err # "IndexError"

\* the errors the encoding raises; a later step of main may raise another
EncodeErrors == {"ValueError", "KeyError"}

Codec == IF wb = 2 THEN codes ELSE huffman_codes

\* the concatenation of the codewords of seq, in order
RECURSIVE Concatenated(_, _)
Concatenated(seq, codec) ==
    IF seq = <<>> THEN <<>>
    ELSE DictGet(codec, Head(seq)) \o Concatenated(Tail(seq), codec)

Uncoded == {s \in {chars[i] : i \in DOMAIN chars} : s \notin DictKeys(Codec)}

\* C5: encode fails with an error that reports the set of all input symbols having
\* no codeword, and produces no bitstring, when a symbol of the input is absent from
\* the codec; otherwise it returns the codewords concatenated in input order.
EncodeReportsMissingSet ==
    Encoded =>
        IF Uncoded # {}
        THEN err \in EncodeErrors /\ missing = Uncoded /\ encoded = <<>>
        ELSE err \notin EncodeErrors /\ encoded = Concatenated(chars, Codec)

\* remove_by_frequency as the claim states it
Distinct == {text[i] : i \in DOMAIN text}
Occ(c) == Cardinality({i \in DOMAIN text : text[i] = c})
FirstSeen(c) == Min({i \in DOMAIN text : text[i] = c})
\* 1 for the highest-ranked symbol: by count descending, equal counts first-seen first
Rank(c) ==
    1 + Cardinality({d \in Distinct :
                        \/ Occ(d) > Occ(c)
                        \/ Occ(d) = Occ(c) /\ FirstSeen(d) < FirstSeen(c)})
\* the integer nearest to num / den, the even one of two equally near
Nearest(num, den) ==
    CHOOSE n \in 0..(num + 1) :
        /\ 2 * Abs(n * den - num) <= den
        /\ (2 * Abs(n * den - num) = den => n % 2 = 0)
RemoveCount == Max({1, Nearest(frac[1] * Cardinality(Distinct), frac[2])})
Dropped ==
    IF mode = "top"
    THEN {c \in Distinct : Rank(c) <= RemoveCount}
    ELSE {c \in Distinct : Rank(c) > Cardinality(Distinct) - RemoveCount}
RECURSIVE Without(_, _)
Without(t, S) ==
    IF t = <<>> THEN <<>>
    ELSE IF Head(t) \in S THEN Without(Tail(t), S)
    ELSE <<Head(t)>> \o Without(Tail(t), S)

\* C6: remove_by_frequency on a non-empty text with k distinct symbols removes the
\* removeCount = max(1, round(frac * k)) highest-ranked symbols (mode top) or
\* lowest-ranked symbols (mode bottom) of the ranking by count descending, equal
\* counts in first-seen order (all k symbols when removeCount exceeds k), and returns
\* the text without them, the other symbols in their order and multiplicity;
\* ("aaabbbccd", top, 0.34) gives "bbbccd" and {a}.
RemoveByFrequencyRanked ==
    (wb = 1 /\ pc = "done" /\ text # <<>>)
        => /\ to_remove = {<<c>> : c \in Dropped}
           /\ filtered = Without(text, Dropped)
           /\ (text = ExampleText /\ mode = "top" /\ frac = <<17, 50>>)
                 => /\ to_remove = {<<"a">>}
                    /\ filtered = <<"b", "b", "b", "c", "c", "d">>

RemoveByFrequencyRankedWitness ==
    /\ wb = 1
    /\ pc = "done"
    /\ text = ExampleText
    /\ mode = "top"
    /\ frac = <<17, 50>>
    /\ to_remove = {<<"a">>}
    /\ filtered = <<"b", "b", "b", "c", "c", "d">>

\* the sum over the symbols s of the frequency count of count[s] * len(code[s])
RECURSIVE CountTimesLen(_, _)
CountTimesLen(cnt, codec) ==
    IF cnt = <<>> THEN 0
    ELSE Head(cnt).val * Len(DictGet(codec, Head(cnt).key))
             + CountTimesLen(Tail(cnt), codec)

\* C7: the average code length is the sum over symbols of count[s] * len(code[s])
\* divided by the sum of all counts, for avg_code_length and calculate_avg_length,
\* for unigram and for bigram counts.
AvgLengthIsWeightedMean ==
    (wb \in {2, 3} /\ (pc \in {"sf_eff", "hm_eff"} \/ pc = "done") /\ tokens # <<>>)
        => avg[1] * SumVals(counter) = CountTimesLen(counter, Codec) * avg[2]

\* C9: bigram decode keeps the overlap: for a text of length at least 2, encoding its
\* overlapping bigrams text[i:i+2] and decoding them rebuilds the text, the first
\* token in full and the last character of every later one, in both workbooks.
\* Stated for the texts with two or more distinct bigrams, where every codeword is
\* non-empty and the decoded tokens are the text's bigrams.
BigramOverlapReconstruction ==
    (gram = 2 /\ Len(text) >= 2 /\ Len(counter) >= 2 /\ DecodedOwn)
        => /\ decoded = tokens
           /\ joined = text

----------------------------------------------------------------------------
\* The claims about the builders, on frequency counts.

BuiltShannonFano == wb = 2 /\ gram = 1 /\ pc = "sf_encode"
BuiltHuffman == wb = 3 /\ pc = "hm_decode"

\* every symbol of cnt has one codeword, non-empty, and no codeword is a prefix of
\* (or equal to) another symbol's
PrefixFreeCodec(codec, cnt) ==
    /\ Len(codec) = Len(cnt)
    /\ DictKeys(codec) = DictKeys(cnt)
    /\ \A i \in DOMAIN codec : Len(codec[i].val) >= 1
    /\ \A i, j \in DOMAIN codec : i # j => ~IsPrefix(codec[i].val, codec[j].val)

\* C3: for a frequency count with at least 2 distinct symbols and positive counts,
\* the codecs of calculate_shannon_fano and of build_huffman_codes are injective,
\* give every symbol a non-empty codeword, and are prefix-free.
BuildersPrefixFree ==
    Len(counter) >= 2 =>
        /\ BuiltShannonFano => PrefixFreeCodec(codes, counter)
        /\ BuiltHuffman => PrefixFreeCodec(huffman_codes, counter)

BuildersPrefixFreeWitness ==
    /\ BuiltHuffman
    /\ Len(counter) = 4
    /\ PrefixFreeCodec(huffman_codes, counter)
    /\ \E i \in DOMAIN huffman_codes : Len(huffman_codes[i].val) = 3

\* the order of a priority queue keyed by (weight, insertion sequence)
Before(ar, i, j) == ar[i].freq < ar[j].freq \/ (ar[i].freq = ar[j].freq /\ i < j)
First(ar, S) == CHOOSE i \in S : \A j \in S \ {i} : Before(ar, i, j)

\* Huffman merging with that priority queue: the nodes created, in order
RECURSIVE QueueMerge(_, _)
QueueMerge(ar, queue) ==
    IF Cardinality(queue) <= 1 THEN ar
    ELSE LET l == First(ar, queue)
             r == First(ar, queue \ {l})
         IN QueueMerge(Append(ar, [char |-> None, freq |-> ar[l].freq + ar[r].freq,
                                   left |-> l, right |-> r]),
                       (queue \ {l, r}) \cup {Len(ar) + 1})

QueueTree ==
    QueueMerge([i \in DOMAIN counter |-> Node(counter[i].key, counter[i].val)],
               DOMAIN counter)

ExampleCounter ==
    <<[key |-> <<"a">>, val |-> 5], [key |-> <<"b">>, val |-> 2],
      [key |-> <<"c">>, val |-> 1], [key |-> <<"d">>, val |-> 1]>>

CodeLengths(codec) == {<<codec[i].key, Len(codec[i].val)>> : i \in DOMAIN codec}

\* C8: every merge removes the two smallest nodes under (weight, insertion
\* sequence), leaves inserted in the frequency count's order and a merged node after
\* all nodes existing then, the first as left child and the second as right child:
\* the nodes created are those of a priority queue keyed by (weight, insertion
\* sequence), and so is the final tree; {a:5, b:2, c:1, d:1} gives the lengths
\* {a:1, b:2, c:3, d:3}.
HuffmanMergeIsQueueOrder ==
    (wb = 3 /\ pc # "hm_start") =>
        /\ Len(arena) <= Len(QueueTree)
        /\ arena = SubSeq(QueueTree, 1, Len(arena))
        /\ (Len(nodes) <= 1 => arena = QueueTree)
        /\ (BuiltHuffman /\ counter = ExampleCounter)
              => CodeLengths(huffman_codes)
                     = {<<<<"a">>, 1>>, <<<<"b">>, 2>>, <<<<"c">>, 3>>, <<<<"d">>, 3>>}

HuffmanMergeIsQueueOrderWitness ==
    /\ BuiltHuffman
    /\ counter = ExampleCounter
    /\ arena = QueueTree
    /\ Len(arena) = 7
    /\ arena[6].left = 2
    /\ arena[6].right = 5

\* the leaves of the tree rooted at node
RECURSIVE LeavesUnder(_, _)
LeavesUnder(ar, node) ==
    IF node = 0 THEN {}
    ELSE IF ar[node].left = 0 /\ ar[node].right = 0 THEN {node}
    ELSE LeavesUnder(ar, ar[node].left) \cup LeavesUnder(ar, ar[node].right)

RECURSIVE SumFreq(_, _)
SumFreq(ar, ns) == IF ns = <<>> THEN 0 ELSE ar[Head(ns)].freq + SumFreq(ar, Tail(ns))

Merges == Len(arena) - Len(counter)

\* C10: in every state of the merge loop on n >= 1 distinct symbols, each symbol is
\* the leaf of exactly one tree of the working list, every internal node's weight is
\* the sum of its children's, and the weights in the list sum to the total count;
\* each merge shrinks the list by one, so the loop ends after n-1 merges with one
\* root of weight the total count.
HuffmanLoopInvariant ==
    (wb = 3 /\ pc = "hm_merge" /\ Len(counter) >= 1) =>
        /\ \A s \in DictKeys(counter) :
              Cardinality({pl \in (DOMAIN nodes) \X (DOMAIN arena) :
                              /\ pl[2] \in LeavesUnder(arena, nodes[pl[1]])
                              /\ arena[pl[2]].char = s}) = 1
        /\ \A m \in DOMAIN arena :
              arena[m].left # 0 =>
                  /\ arena[m].right # 0
                  /\ arena[m].freq = arena[arena[m].left].freq + arena[arena[m].right].freq
        /\ SumFreq(arena, nodes) = SumVals(counter)
        /\ Len(nodes) = Len(counter) - Merges
        /\ Merges <= Len(counter) - 1
        /\ (~ENABLED HuffmanMerge) =>
              /\ Merges = Len(counter) - 1
              /\ Len(nodes) = 1
              /\ arena[nodes[1]].freq = SumVals(counter)

HuffmanLoopInvariantWitness ==
    /\ wb = 3
    /\ pc = "hm_merge"
    /\ Len(counter) = 4
    /\ Merges = 2
    /\ Len(nodes) = 2
    /\ SumFreq(arena, nodes) = SumVals(counter)

----------------------------------------------------------------------------
\* The claim about calculate_shannon_fano.split.

Splitting == wb = 2 /\ pc = "sf_split"

\* the group is in descending order of weight, with positive counts
DescendingPositive(g) ==
    /\ \A i \in DOMAIN g : g[i].val >= 1
    /\ \A i, j \in DOMAIN g : i < j => g[i].val >= g[j].val

\* in every pending call of split: the group is non-empty, sorted, and, with 2 or
\* more members, cut between 1 and len(group)-1; pending groups share no symbol, and
\* the members of one group have taken part in the same splits
SplitCutsProper ==
    Splitting =>
        /\ \A k \in DOMAIN stack :
              /\ Len(counter) >= 1 => Len(stack[k]) >= 1
              /\ DescendingPositive(stack[k])
              /\ Len(stack[k]) >= 2 => CutIdx(stack[k]) \in 1..(Len(stack[k]) - 1)
              /\ \A i, j \in DOMAIN stack[k] :
                    DictGet(codes, stack[k][i].key) = DictGet(codes, stack[k][j].key)
        /\ \A k, l \in DOMAIN stack :
              k # l => DictKeys(stack[k]) \cap DictKeys(stack[l]) = {}
        /\ stack # <<>> => ENABLED SFSplit

\* one call of split: a group of one member is left alone; a larger one is cut into
\* two non-empty parts, "0" appended for the left, "1" for the right, and both parts
\* are split in turn
SplitStep ==
    (Splitting /\ pc' = "sf_split") =>
        LET g == Head(stack)
        IN IF Len(g) <= 1
           THEN codes' = codes /\ stack' = Tail(stack)
           ELSE \E cut \in 1..(Len(g) - 1) :
                   /\ stack' = <<SubSeq(g, cut + 1, Len(g)), SubSeq(g, 1, cut)>>
                                   \o Tail(stack)
                   /\ Len(codes') = Len(codes)
                   /\ \A i \in DOMAIN codes :
                         /\ codes'[i].key = codes[i].key
                         /\ codes'[i].val =
                               IF \E j \in 1..cut : g[j].key = codes[i].key
                               THEN Append(codes[i].val, "0")
                               ELSE IF \E j \in (cut + 1)..Len(g) : g[j].key = codes[i].key
                                    THEN Append(codes[i].val, "1")
                                    ELSE codes[i].val

\* when split has returned, nothing is pending and a symbol has taken part in at
\* least one split (2 or more symbols) and in at most n-1
SplitReturned ==
    BuiltShannonFano =>
        /\ stack = <<>>
        /\ \A i \in DOMAIN codes :
              /\ Len(counter) >= 2 => Len(codes[i].val) >= 1
              /\ Len(codes[i].val) <= Max({Len(counter) - 1, 0})

\* the calls of split still to be made for the pending groups, when every cut is
\* proper: 2m-1 for a group of m members, one for an empty group
RECURSIVE CallsLeft(_)
CallsLeft(stk) ==
    IF stk = <<>> THEN 0 ELSE Max({2 * Len(Head(stk)) - 1, 1}) + CallsLeft(Tail(stk))

\* every call of split leaves one call less to make
SplitProgress == (Splitting /\ pc' = "sf_split") => CallsLeft(stack') = CallsLeft(stack) - 1

\* C11: for positive counts sorted by descending weight, every call of split on a
\* group of 2 or more members cuts it into a non-empty left and a non-empty right
\* part (cut index between 1 and len(group)-1), each member's codeword grows by
\* exactly one bit per split it takes part in ('0' left, '1' right), and the
\* recursion terminates with every group reduced to exactly one member: no pending
\* group is empty, a call is always possible while one is pending, and each call
\* leaves one call less to make.
SplitAlwaysProperAndTerminates ==
    /\ [](SplitCutsProper /\ SplitReturned)
    /\ [][SplitStep /\ SplitProgress]_vars

SplitAlwaysProperAndTerminatesWitness ==
    /\ Splitting
    /\ Len(counter) = 4
    /\ Len(stack) = 2
    /\ Len(stack[1]) = 2
    /\ Len(stack[2]) = 2
    /\ CutIdx(stack[1]) = 1
    /\ \A i \in DOMAIN codes : Len(codes[i].val) = 1
    /\ CallsLeft(stack) = 6

====
